---- MODULE Spec2Model ----
(***************************************************************************)
(* Model of src/streamlit_app.py: the Streamlit script that loads an       *)
(* uploaded parquet file, resolves and decodes its geometry column,        *)
(* filters by geometry type and renders a folium map.                      *)
(*                                                                         *)
(* One run of the script (a "pass") is a chain of steps driven by pc.  The *)
(* only state that survives a pass is the disk (temporary files).  The     *)
(* libraries (pyarrow, geopandas, folium, the OS) are the environment:     *)
(* each call either returns or raises, chosen with \E where the values at  *)
(* hand do not decide it.                                                  *)
(***************************************************************************)
EXTENDS Integers, Sequences, FiniteSets, TLC

\* ------------------------------------------------------------------ bounds
MaxCols == 2        \* columns of an uploaded frame
MaxRows == 2        \* rows of an uploaded frame
MaxTempFiles == 2   \* temporary files that can be on disk at once

\* Python's None and a bound value, as a sequence of no or one element.
None == <<>>
Some(v) == <<v>>
Get(o) == o[1]

NoCRS == "None"             \* gdf.crs is None
NoException == "none"

\* ------------------------------------------------------------ column names
\* A column name is a sequence of characters, so that lower() and the
\* substring test of line 31 are computed, not assumed.
UpperChars == <<"A","B","C","D","E","F","G","H","I","J","K","L","M",
                "N","O","P","Q","R","S","T","U","V","W","X","Y","Z">>
LowerChars == <<"a","b","c","d","e","f","g","h","i","j","k","l","m",
                "n","o","p","q","r","s","t","u","v","w","x","y","z">>

LowerChar(c) ==
    IF \E i \in 1..Len(UpperChars) : UpperChars[i] = c
    THEN LowerChars[CHOOSE i \in 1..Len(UpperChars) : UpperChars[i] = c]
    ELSE c

\* str.lower()
lower(s) == [i \in 1..Len(s) |-> LowerChar(s[i])]

\* needle in hay
Contains(hay, needle) ==
    \E i \in 1..(Len(hay) - Len(needle) + 1) :
        SubSeq(hay, i, i + Len(needle) - 1) = needle

Tok_geom == <<"g","e","o","m">>
Tok_geometry == <<"g","e","o","m","e","t","r","y">>

\* Case-sensitive comparison: the slip of dropping .lower().
MatchesGeometryName_CaseSensitive(col) ==
    Contains(col, Tok_geom) \/ Contains(col, Tok_geometry)

\* 'geom' in col.lower() or 'geometry' in col.lower()
MatchesGeometryName(col) ==
    Contains(lower(col), Tok_geom) \/ Contains(lower(col), Tok_geometry)

\* [col for col in df.columns if ...]
GeometryCols(columns) == SelectSeq(columns, MatchesGeometryName)

\* The column names uploaded files are built from.
ColumnNames ==
    { <<"i","d">>,
      <<"g","e","o">>,
      <<"g","e","o","m">>,
      <<"t","h","e","_","G","E","O","M">>,
      <<"G","e","o","m","e","t","r","y">> }

RECURSIVE SeqsUpTo(_, _)
SeqsUpTo(S, n) ==
    IF n = 0 THEN { <<>> }
    ELSE LET shorter == SeqsUpTo(S, n - 1)
         IN  shorter \cup { Append(s, x) : s \in shorter, x \in S }

Range(s) == { s[i] : i \in 1..Len(s) }
NoRepeat(s) == \A i, j \in 1..Len(s) : s[i] = s[j] => i = j

ColumnLists == { s \in SeqsUpTo(ColumnNames, MaxCols) : NoRepeat(s) }

\* ------------------------------------------------------------------ frames
Supported == {"Point", "MultiPoint", "LineString", "MultiLineString",
              "Polygon", "MultiPolygon"}

\* What the values of a geometry-named column can be: geometry objects, WKT
\* strings, WKB bytes, or something none of the three decoders accepts.
Encodings == {"native", "wkt", "wkb", "other"}

EPSG4326 == "EPSG:4326"
CRSs == {NoCRS, EPSG4326, "EPSG:3857"}

\* Row i of a file: its index label, its geometry type and one coordinate.
MakeRows(types) ==
    [i \in 1..Len(types) |-> [idx |-> i, type |-> types[i], x |-> 10 * i]]

File(c, e, t, r) ==
    [columns |-> c, encoding |-> e, rows |-> MakeRows(t), crs |-> r]

\* The files a user uploads vary the column names (over one row of content)
\* or the content of the geometry column (under the columns id, Geometry).
\* Only geometry objects carry a CRS; strings and bytes have none.
ColumnFiles ==
    { File(c, e, <<"Point">>, NoCRS) : c \in ColumnLists, e \in Encodings }

ContentFiles ==
    { File(<< <<"i","d">>, <<"G","e","o","m","e","t","r","y">> >>, e, t, r) :
        e \in Encodings, t \in SeqsUpTo(Supported, MaxRows), r \in CRSs }

UploadedFiles ==
    { f \in ColumnFiles \cup ContentFiles :
        f.encoding # "native" => f.crs = NoCRS }

\* Series.unique(): distinct values in order of first appearance.
RECURSIVE Unique(_)
Unique(s) ==
    IF s = <<>> THEN <<>>
    ELSE LET front == Unique(SubSeq(s, 1, Len(s) - 1))
             last  == s[Len(s)]
         IN  IF last \in Range(front) THEN front ELSE Append(front, last)

TypesOf(rows) == [i \in 1..Len(rows) |-> rows[i].type]

\* The slip of offering the documented list (line 161) instead of the data's.
GeometryTypes_AllSupported(rows) ==
    <<"Point", "MultiPoint", "LineString", "MultiLineString", "Polygon",
      "MultiPolygon">>

\* gdf.geometry.type.unique()
GeometryTypes(rows) == Unique(TypesOf(rows))

\* gdf[gdf.geometry.type.isin(selected_types)]
FilterByTypes(rows, selected) ==
    LET Keep(r) == r.type \in Range(selected) IN SelectSeq(rows, Keep)

\* filtered_gdf[filtered_gdf.geometry.type == geom_type]
RowsOfType(rows, geom_type) ==
    LET Keep(r) == r.type = geom_type IN SelectSeq(rows, Keep)

\* ----------------------------------------------------------------- widgets
\* A widget the user has not touched, and one the user set to v.
Untouched(v) == [touched |-> FALSE, value |-> v]
Picked(v) == [touched |-> TRUE, value |-> v]

\* The slip of treating an untouched selector as "no column yet".
Selectbox_NoDefault(options, choice) ==
    IF choice.touched THEN options[choice.value] ELSE <<>>

\* st.selectbox(label, options): the first option until the user picks one.
Selectbox(options, choice) ==
    IF choice.touched THEN options[choice.value] ELSE options[1]

\* st.multiselect(label, options, default): the default until the user edits
\* the selection, then the user's selection, always drawn from the options.
Multiselect(options, default, user) ==
    IF user.touched THEN user.value ELSE default

\* What a user can select among `options`: any of them, each once, in the
\* order picked.
Selections(options) ==
    { s \in SeqsUpTo(Range(options), Len(options)) : NoRepeat(s) }

\* The slip of dropping the guard of line 77.
ShouldRender_Always(selected_types) == TRUE

\* if selected_types:
ShouldRender(selected_types) == selected_types # <<>>

\* ------------------------------------------------------------- CRS and map
\* The slip of dropping the "gdf.crs and" half of line 83.
NeedsReproject_IgnoreUnknown(crs) == crs # EPSG4326

\* if gdf.crs and gdf.crs != "EPSG:4326":
NeedsReproject(crs) == crs # NoCRS /\ crs # EPSG4326

\* to_crs("EPSG:4326"): every coordinate changes (the projection is not the
\* identity), rows and types are kept.
ToCrs4326(rows) ==
    [i \in 1..Len(rows) |-> [rows[i] EXCEPT !.x = rows[i].x + 1]]

Min(S) == CHOOSE v \in S : \A w \in S : v <= w
Max(S) == CHOOSE v \in S : \A w \in S : v >= w

\* total_bounds and the midpoint of lines 87-89 (one axis): NaN on no rows.
NaN == [nan |-> TRUE, x |-> 0]
Center(rows) ==
    IF rows = <<>> THEN NaN
    ELSE LET xs == { rows[i].x : i \in 1..Len(rows) }
         IN  [nan |-> FALSE, x |-> (Min(xs) + Max(xs)) \div 2]

\* The layer the loop body of lines 96-131 adds for one selected type, as a
\* sequence of zero or one layers.
LayersFor(rows, geom_type) ==
    LET type_gdf == RowsOfType(rows, geom_type) IN
    IF Len(type_gdf) = 0 THEN <<>>
    ELSE IF geom_type = "Point" THEN
        << [layer   |-> "MarkerCluster",
            name    |-> geom_type,
            markers |-> [i \in 1..Len(type_gdf) |->
                           [location |-> type_gdf[i].x,
                            popup    |-> type_gdf[i].idx]]] >>
    ELSE IF geom_type \in {"LineString", "MultiLineString"} THEN
        << [layer |-> "GeoJson", name |-> geom_type, style |-> "line",
            features |-> type_gdf] >>
    ELSE IF geom_type \in {"Polygon", "MultiPolygon"} THEN
        << [layer |-> "GeoJson", name |-> geom_type, style |-> "polygon",
            features |-> type_gdf] >>
    ELSE <<>>

\* for geom_type in selected_types: ...
RECURSIVE BuildLayers(_, _)
BuildLayers(rows, selected) ==
    IF selected = <<>> THEN <<>>
    ELSE LayersFor(rows, Head(selected)) \o BuildLayers(rows, Tail(selected))

\* ------------------------------------------------------------------- state
VARIABLES
    pc,             \* the statement the running pass is at
    disk,           \* temporary files of the loader that exist on disk
    uploaded_file,  \* st.file_uploader's value in this pass
    df,             \* the frame read from the temporary file
    geometry_cols,  \* line 31
    col_options,    \* the options of the column selector, when it is shown
    col_choice,     \* what the user picked in the column selector
    geometry_col,   \* lines 38 and 40
    attempts,       \* the decoder calls made, in order, with their results
    gdf,            \* lines 44, 50, 53
    geometry_types, \* line 64
    selected_types, \* line 73
    filtered_gdf,   \* lines 78 and 84
    reprojected,    \* whether to_crs was called (line 84)
    bounds,         \* the center computed from total_bounds (lines 87-89)
    m,              \* the folium map (lines 92-134)
    out,            \* what the page shows, in order
    uncaught        \* the exception that left the script, if any

vars == <<pc, disk, uploaded_file, df, geometry_cols, col_options, col_choice,
          geometry_col, attempts, gdf, geometry_types, selected_types,
          filtered_gdf, reprojected, bounds, m, out, uncaught>>

locals == <<df, geometry_cols, col_options, col_choice, geometry_col,
            attempts, gdf, geometry_types, selected_types, filtered_gdf,
            reprojected, bounds, m>>

FreshLocals ==
    /\ df = None /\ geometry_cols = <<>> /\ col_options = <<>>
    /\ col_choice = Untouched(1) /\ geometry_col = None /\ attempts = <<>>
    /\ gdf = None /\ geometry_types = <<>> /\ selected_types = <<>>
    /\ filtered_gdf = None /\ reprojected = FALSE /\ bounds = None
    /\ m = None

Init ==
    /\ pc = "start"
    /\ disk = 0
    /\ uploaded_file = None
    /\ out = <<>>
    /\ uncaught = NoException
    /\ FreshLocals

Show(msg) == out' = Append(out, msg)

\* ---------------------------------------------------------------- the pass
\* Lines 17-19, 154-155: no file in the uploader.
NoUpload ==
    /\ pc = "start"
    /\ uploaded_file' = None
    /\ Show("info")
    /\ pc' = "done"
    /\ UNCHANGED <<disk, locals, uncaught>>

\* Lines 17-23: a file is in the uploader; it is written to a temporary file
\* that outlives the with block (delete=False).  The block is outside the try
\* of line 25: an exception here leaves the script.
SaveUpload ==
    /\ pc = "start"
    /\ disk < MaxTempFiles
    /\ \E f \in UploadedFiles :
        /\ uploaded_file' = Some(f)
        /\ \/ /\ disk' = disk + 1        \* written: on to the try block
              /\ pc' = "read"
              /\ UNCHANGED uncaught
           \/ /\ disk' = disk + 1        \* created, then write() raises
              /\ uncaught' = "write"
              /\ pc' = "done"
           \/ /\ uncaught' = "NamedTemporaryFile"   \* never created
              /\ pc' = "done"
              /\ UNCHANGED disk
    /\ UNCHANGED <<locals, out>>

\* Lines 27-28, 148-149.
ReadParquet ==
    /\ pc = "read"
    /\ \/ /\ df' = uploaded_file
          /\ pc' = "resolve"
          /\ UNCHANGED out
       \/ /\ Show("ReadError")
          /\ pc' = "finally"
          /\ UNCHANGED df
    /\ UNCHANGED <<disk, uploaded_file, geometry_cols, col_options, col_choice,
                   geometry_col, attempts, gdf, geometry_types, selected_types,
                   filtered_gdf, reprojected, bounds, m, uncaught>>

\* if len(geometry_cols) > 1:
NeedsSelector(cols) == Len(cols) > 1

\* Lines 31-40.
Resolve ==
    /\ pc = "resolve"
    /\ geometry_cols' = GeometryCols(Get(df).columns)
    /\ IF geometry_cols' = <<>>
       THEN /\ Show("NoGeometryColumn")
            /\ pc' = "finally"
            /\ UNCHANGED <<col_options, col_choice, geometry_col>>
       ELSE IF NeedsSelector(geometry_cols')
       THEN /\ \E choice \in {Untouched(1)} \cup
                             { Picked(i) : i \in 1..Len(geometry_cols') } :
                 /\ col_choice' = choice
                 /\ geometry_col' = Selectbox(geometry_cols', choice)
            /\ col_options' = geometry_cols'
            /\ Show("selectbox")
            /\ pc' = "native"
       ELSE /\ geometry_col' = geometry_cols'[1]
            /\ pc' = "native"
            /\ UNCHANGED <<col_options, col_choice, out>>
    /\ UNCHANGED <<disk, uploaded_file, df, attempts, gdf, geometry_types,
                   selected_types, filtered_gdf, reprojected, bounds, m,
                   uncaught>>

Attempt(decoder, result) ==
    attempts' = Append(attempts, [decoder |-> decoder, result |-> result])

Geometries(frame) == [rows |-> frame.rows, crs |-> frame.crs, decoded |-> TRUE]
RawValues(frame)  == [rows |-> frame.rows, crs |-> NoCRS, decoded |-> FALSE]

\* Line 44, 145-146: GeoDataFrame(df, geometry=geometry_col).  Geometry
\* objects are taken as they are; for other values the constructor either
\* raises or keeps them undecoded, depending on the library.
DecodeNative ==
    /\ pc = "native"
    /\ \/ /\ Get(df).encoding = "native"
          /\ gdf' = Some(Geometries(Get(df)))
          /\ Attempt("native", "geometries")
          /\ pc' = "wkt"
          /\ UNCHANGED out
       \/ /\ Get(df).encoding # "native"
          /\ gdf' = Some(RawValues(Get(df)))
          /\ Attempt("native", "raw")
          /\ pc' = "wkt"
          /\ UNCHANGED out
       \/ /\ Get(df).encoding # "native"
          /\ Attempt("native", "raised")
          /\ Show("ProcessError")
          /\ pc' = "finally"
          /\ UNCHANGED gdf
    /\ UNCHANGED <<disk, uploaded_file, df, geometry_cols, col_options,
                   col_choice, geometry_col, geometry_types, selected_types,
                   filtered_gdf, reprojected, bounds, m, uncaught>>

\* isinstance(gdf.geometry.iloc[0], gpd.geoseries.GeoSeries): an element of a
\* geometry column is a geometry (or a string, or bytes), never a GeoSeries.
FirstIsGeoSeries(frame) == FALSE

\* Lines 47-51: iloc[0] raises on a frame without rows; otherwise from_wkt is
\* called, and parses WKT strings only.
DecodeWkt ==
    /\ pc = "wkt"
    /\ IF Get(gdf).rows = <<>>
       THEN /\ Show("ProcessError")
            /\ pc' = "finally"
            /\ UNCHANGED <<gdf, attempts>>
       ELSE IF FirstIsGeoSeries(Get(gdf))
       THEN /\ pc' = "summary"
            /\ UNCHANGED <<gdf, attempts, out>>
       ELSE IF Get(df).encoding = "wkt"
       THEN /\ gdf' = Some([Geometries(Get(df)) EXCEPT !.crs = NoCRS])
            /\ Attempt("wkt", "geometries")
            /\ pc' = "summary"
            /\ UNCHANGED out
       ELSE /\ Attempt("wkt", "raised")
            /\ pc' = "wkb"
            /\ UNCHANGED <<gdf, out>>
    /\ UNCHANGED <<disk, uploaded_file, df, geometry_cols, col_options,
                   col_choice, geometry_col, geometry_types, selected_types,
                   filtered_gdf, reprojected, bounds, m, uncaught>>

\* Lines 52-55: from_wkb parses WKB bytes only; when it raises too, the
\* message is shown and the script goes on to line 57.
DecodeWkb ==
    /\ pc = "wkb"
    /\ IF Get(df).encoding = "wkb"
       THEN /\ gdf' = Some([Geometries(Get(df)) EXCEPT !.crs = NoCRS])
            /\ Attempt("wkb", "geometries")
            /\ UNCHANGED out
       ELSE /\ Attempt("wkb", "raised")
            /\ Show("DecodeError")
            /\ UNCHANGED gdf
    /\ pc' = "summary"
    /\ UNCHANGED <<disk, uploaded_file, df, geometry_cols, col_options,
                   col_choice, geometry_col, geometry_types, selected_types,
                   filtered_gdf, reprojected, bounds, m, uncaught>>

\* Lines 57-69, 145-146: the informational panel and the data sample.  The
\* geometry accessor of line 64 raises on values that were never decoded.
Summary ==
    /\ pc = "summary"
    /\ IF Get(gdf).decoded
       THEN /\ geometry_types' = GeometryTypes(Get(gdf).rows)
            /\ out' = out \o <<"DataInformation", "DataSample">>
            /\ pc' = "filter"
       ELSE /\ out' = out \o <<"DataInformation", "ProcessError">>
            /\ pc' = "finally"
            /\ UNCHANGED geometry_types
    /\ UNCHANGED <<disk, uploaded_file, df, geometry_cols, col_options,
                   col_choice, geometry_col, attempts, gdf, selected_types,
                   filtered_gdf, reprojected, bounds, m, uncaught>>

\* Lines 71-78, 142-143.
Filter ==
    /\ pc = "filter"
    /\ \E user \in {Untouched(<<>>)} \cup
                   { Picked(sel) : sel \in Selections(geometry_types) } :
        selected_types' = Multiselect(geometry_types, geometry_types, user)
    /\ IF ShouldRender(selected_types')
       THEN /\ filtered_gdf' = Some(FilterByTypes(Get(gdf).rows,
                                                  selected_types'))
            /\ Show("multiselect")
            /\ pc' = "render"
       ELSE /\ out' = out \o <<"multiselect", "EmptySelectionWarning">>
            /\ pc' = "finally"
            /\ UNCHANGED filtered_gdf
    /\ UNCHANGED <<disk, uploaded_file, df, geometry_cols, col_options,
                   col_choice, geometry_col, attempts, gdf, geometry_types,
                   reprojected, bounds, m, uncaught>>

\* Lines 81-141: reprojection, center, map, layers, layer control, display.
\* to_crs and the folium calls can raise; folium.Map raises on a NaN
\* location.  Whatever is raised is shown by line 141.
Render ==
    /\ pc = "render"
    /\ \E raises \in {"nothing", "to_crs", "folium"} :
        LET wanted     == NeedsReproject(Get(gdf).crs)
            normalized == IF wanted THEN ToCrs4326(Get(filtered_gdf))
                          ELSE Get(filtered_gdf)
        IN  /\ raises = "to_crs" => wanted
            /\ reprojected' = wanted
            /\ IF raises = "to_crs"
               THEN /\ Show("MapError")
                    /\ UNCHANGED <<filtered_gdf, bounds, m>>
               ELSE /\ filtered_gdf' = Some(normalized)
                    /\ bounds' = Some(Center(normalized))
                    /\ IF Center(normalized).nan \/ raises = "folium"
                       THEN /\ Show("MapError")
                            /\ UNCHANGED m
                       ELSE /\ m' = Some([location |-> Center(normalized).x,
                                          layers |-> BuildLayers(normalized,
                                                        selected_types),
                                          control |-> TRUE])
                            /\ Show("map")
    /\ pc' = "finally"
    /\ UNCHANGED <<disk, uploaded_file, df, geometry_cols, col_options,
                   col_choice, geometry_col, attempts, gdf, geometry_types,
                   selected_types, uncaught>>

\* Lines 151-153: os.unlink(tmp_path); an exception here leaves the script.
Finally ==
    /\ pc = "finally"
    /\ \/ /\ disk' = disk - 1
          /\ UNCHANGED uncaught
       \/ /\ uncaught' = "unlink"
          /\ UNCHANGED disk
    /\ pc' = "done"
    /\ UNCHANGED <<uploaded_file, locals, out>>

\* The next user action reruns the script from the top; nothing but the disk
\* is carried over.
Rerun ==
    /\ pc = "done"
    /\ pc' = "start"
    /\ uploaded_file' = None
    /\ out' = <<>>
    /\ uncaught' = NoException
    /\ df' = None /\ geometry_cols' = <<>> /\ col_options' = <<>>
    /\ col_choice' = Untouched(1) /\ geometry_col' = None /\ attempts' = <<>>
    /\ gdf' = None /\ geometry_types' = <<>> /\ selected_types' = <<>>
    /\ filtered_gdf' = None /\ reprojected' = FALSE /\ bounds' = None
    /\ m' = None
    /\ UNCHANGED disk

Next ==
    \/ NoUpload
    \/ SaveUpload
    \/ ReadParquet
    \/ Resolve
    \/ DecodeNative
    \/ DecodeWkt
    \/ DecodeWkb
    \/ Summary
    \/ Filter
    \/ Render
    \/ Finally
    \/ Rerun

Spec == Init /\ [][Next]_vars

\* ================================================================== claims
Shown(msg) == msg \in Range(out)
PassEnded == pc = "done"

\* The resolver has run in this pass (the frame was read, line 31 is behind).
Resolved == df # None /\ pc \notin {"read", "resolve"}

\* The decoder's three strategies, in the order the contract gives them.
DecoderRank(d) == CASE d = "native" -> 1 [] d = "wkt" -> 2 [] d = "wkb" -> 3

\* A name contains "geom" or "geometry" in any mix of cases: some substring
\* of it equals one of the tokens once every letter is lowered.
IsGeometryName(col) ==
    \E i, j \in 1..Len(col) :
        lower(SubSeq(col, i, j)) \in {Tok_geom, Tok_geometry}

\* C1: once a pass in which a file was uploaded has completed, however it
\* ended (a failure while writing the upload included), no temporary file of
\* the loader exists on disk.  Passes whose os.unlink itself raised are left
\* aside: there the removal was attempted.
C1_TempFileRemoved ==
    (PassEnded /\ uploaded_file # None /\ uncaught # "unlink") => disk = 0

\* C2: the resolver collects, in column order, exactly the columns whose name
\* contains "geom" or "geometry" case-insensitively; with no match it shows
\* NoGeometryColumn and no later stage runs; with one match it selects it and
\* shows no selector; with several it offers them all.
C2_ResolverContract ==
    Resolved =>
        /\ geometry_cols = SelectSeq(Get(df).columns, IsGeometryName)
        /\ Len(geometry_cols) = 0 =>
              /\ pc \in {"finally", "done"}
              /\ out = <<"NoGeometryColumn">>
              /\ attempts = <<>> /\ gdf = None /\ geometry_types = <<>>
              /\ selected_types = <<>> /\ filtered_gdf = None
              /\ bounds = None /\ m = None
        /\ Len(geometry_cols) = 1 =>
              /\ geometry_col = geometry_cols[1]
              /\ col_options = <<>>
              /\ ~Shown("selectbox")
        /\ Len(geometry_cols) > 1 =>
              /\ col_options = geometry_cols
              /\ Shown("selectbox")
              /\ geometry_col \in Range(geometry_cols)

\* Several candidates, one of them matched only thanks to case folding, all
\* offered in column order.
C2_Witness ==
    /\ Resolved
    /\ Len(geometry_cols) > 1
    /\ col_options = geometry_cols
    /\ \E i \in 1..Len(geometry_cols) :
          ~Contains(geometry_cols[i], Tok_geom)
    /\ Len(Get(df).columns) > Len(geometry_cols) \/ geometry_cols[1] # Tok_geom

\* C3: the decoder tries native, WKT, WKB in that order and stops at the
\* first that succeeds: no decoding is attempted after one has produced
\* geometries, and the DecodeError message appears only when all three have
\* failed.
C3_StopsAtFirstSuccess ==
    /\ \A i, j \in 1..Len(attempts) :
          i < j => /\ DecoderRank(attempts[i].decoder)
                        < DecoderRank(attempts[j].decoder)
                   /\ attempts[i].result # "geometries"
    /\ Shown("DecodeError") =>
          /\ Len(attempts) = 3
          /\ \A i \in 1..Len(attempts) : attempts[i].result # "geometries"

\* C4: once the DecodeError message is shown, the pass shows no summary, no
\* geometry-type filter and no map.
C4_DecodeErrorHalts ==
    Shown("DecodeError") =>
        /\ ~Shown("DataInformation")
        /\ ~Shown("DataSample")
        /\ ~Shown("multiselect")
        /\ ~Shown("map")

\* The filter ran in this pass and the selection came back empty.
EmptySelection == Shown("multiselect") /\ selected_types = <<>>

\* C5: with an empty selection of geometry types the renderer does not run
\* (no reprojection, no envelope, no map), the empty selection is reported by
\* a warning and by no error message, and the summary shown earlier stays.
C5_EmptySelectionWarns ==
    EmptySelection =>
        /\ pc \in {"finally", "done"}
        /\ filtered_gdf = None /\ ~reprojected /\ bounds = None /\ m = None
        /\ ~Shown("map")
        /\ SubSeq(out, Len(out) - 1, Len(out))
              = <<"multiselect", "EmptySelectionWarning">>
        /\ ~Shown("MapError") /\ ~Shown("ProcessError") /\ ~Shown("ReadError")
        /\ Shown("DataInformation") /\ Shown("DataSample")

\* A pass over a frame with two geometry types whose user cleared the
\* selection has ended.
C5_Witness ==
    /\ PassEnded
    /\ EmptySelection
    /\ Len(geometry_types) > 1
    /\ Shown("EmptySelectionWarning")

\* C6: no failure of a stage leaves the pass uncaught; each is shown as an
\* error message, and a pass that showed an error message shows no map.
C6_EveryFailureCaught ==
    /\ uncaught = NoException
    /\ (Shown("ReadError") \/ Shown("NoGeometryColumn") \/ Shown("DecodeError")
          \/ Shown("ProcessError") \/ Shown("MapError")) => ~Shown("map")

\* The layers of the rendered map that carry the name of type t.
LayersNamed(t) ==
    LET layers == Get(m).layers
    IN  { i \in 1..Len(layers) : layers[i].name = t }

RowsShown(t) == RowsOfType(Get(filtered_gdf), t)

\* C7: a rendered map has exactly one layer for every supported type that is
\* selected and present among the filtered rows, and none for any other:
\* clustered markers, one per row, for Point and MultiPoint; a line-styled
\* vector layer for LineString and MultiLineString; a polygon-styled one for
\* Polygon and MultiPolygon.
C7_OneLayerPerType ==
    m # None =>
        \A t \in Supported :
            IF t \in Range(selected_types) /\ RowsShown(t) # <<>>
            THEN /\ Cardinality(LayersNamed(t)) = 1
                 /\ LET layer == Get(m).layers[CHOOSE i \in LayersNamed(t) : TRUE]
                    IN  CASE t \in {"Point", "MultiPoint"} ->
                               /\ layer.layer = "MarkerCluster"
                               /\ Len(layer.markers) = Len(RowsShown(t))
                          [] t \in {"LineString", "MultiLineString"} ->
                               /\ layer.layer = "GeoJson"
                               /\ layer.style = "line"
                          [] t \in {"Polygon", "MultiPolygon"} ->
                               /\ layer.layer = "GeoJson"
                               /\ layer.style = "polygon"
            ELSE LayersNamed(t) = {}

\* The renderer was entered in this pass and the pass has left it.
RenderLeft == filtered_gdf # None /\ pc \in {"finally", "done"}

\* The rows of the decoded frame whose type is selected, as decoded.
SelectedRows ==
    LET Keep(r) == \E i \in 1..Len(selected_types) : selected_types[i] = r.type
    IN  SelectSeq(Get(gdf).rows, Keep)

\* C8: the renderer reprojects to EPSG:4326 exactly when the frame's CRS is
\* known and is not EPSG:4326; otherwise the filtered geometries reach the
\* envelope and the map unchanged, and an unknown CRS raises nothing (the
\* envelope is computed over them).
C8_NormalizeCRS ==
    RenderLeft =>
        /\ reprojected <=> Get(gdf).crs \notin {NoCRS, EPSG4326}
        /\ ~reprojected =>
              /\ Get(filtered_gdf) = SelectedRows
              /\ bounds = Some(Center(SelectedRows))
        /\ (reprojected /\ bounds # None) =>
              /\ Len(Get(filtered_gdf)) = Len(SelectedRows)
              /\ \A i \in 1..Len(SelectedRows) :
                    /\ Get(filtered_gdf)[i].type = SelectedRows[i].type
                    /\ Get(filtered_gdf)[i].idx = SelectedRows[i].idx
                    /\ Get(filtered_gdf)[i].x # SelectedRows[i].x

\* A frame in EPSG:3857 was reprojected and its map shown.
C8_Witness ==
    /\ RenderLeft
    /\ Get(gdf).crs = "EPSG:3857"
    /\ reprojected
    /\ Shown("map")
    /\ Get(filtered_gdf) # SelectedRows

\* Several columns matched and the user has not picked one in the selector.
NotYetChosen == Resolved /\ Len(geometry_cols) > 1 /\ ~col_choice.touched

\* C9 as stated: while several columns match and the user has not chosen
\* one, no stage after the resolver (decode, summary, filter, map) runs.
C9_SuspendsUntilChosen ==
    NotYetChosen =>
        /\ attempts = <<>> /\ gdf = None
        /\ ~Shown("DataInformation") /\ ~Shown("multiselect") /\ ~Shown("map")

\* C9 as amended: when several columns match, the selector is shown with the
\* first of them preselected, and a pass in which the user has not chosen a
\* column goes on to the decoder with that first column (a column the user
\* chose is the one used); processing does not wait for a choice.
C9_DefaultsToFirst ==
    (Resolved /\ Len(geometry_cols) > 1) =>
        /\ Shown("selectbox")
        /\ geometry_col = IF col_choice.touched
                          THEN geometry_cols[col_choice.value]
                          ELSE geometry_cols[1]
        /\ pc = "native" \/ attempts # <<>>

\* A pass over several candidates rendered its map without any choice made.
C9_Witness ==
    /\ NotYetChosen
    /\ geometry_col = geometry_cols[1]
    /\ Len(attempts) > 1
    /\ Shown("map")

\* The distinct geometry types of the decoded frame.
TypesPresent == { Get(gdf).rows[i].type : i \in 1..Len(Get(gdf).rows) }

\* C10: whenever the envelope is computed the filtered frame has a row: the
\* types offered are exactly the distinct types of the decoded frame, the
\* selection is drawn from them, and a non-empty selection keeps a row.
C10_EnvelopeOverRows ==
    /\ Shown("multiselect") =>
          /\ Range(geometry_types) = TypesPresent
          /\ Range(selected_types) \subseteq Range(geometry_types)
    /\ bounds # None =>
          /\ Len(Get(filtered_gdf)) >= 1
          /\ ~Get(bounds).nan

\* The envelope was computed over a frame from which the selection removed a
\* row.
C10_Witness ==
    /\ bounds # None
    /\ Len(selected_types) < Len(geometry_types)
    /\ Len(Get(filtered_gdf)) >= 1
    /\ Len(Get(filtered_gdf)) < Len(Get(gdf).rows)

====
